---- MODULE Spec2Model ----
(***************************************************************************)
(* A model of dmmp.py, the Python client of multipathd's IPC socket.       *)
(*                                                                         *)
(* Bytes are integers 0..255, byte strings are sequences of bytes, text is *)
(* a sequence of Unicode code points.  Every length of the model is far    *)
(* below 2^31, so the native signed and the hexadecimal unsigned reading   *)
(* of a length prefix agree on the values that occur.                      *)
(***************************************************************************)
EXTENDS Integers, Sequences, FiniteSets, TLC

VARIABLES
    platform,       \* the interpreter and the machine the module runs on
    module,         \* "unloaded", "loaded" or "import_error"
    Path_CONV,      \* Path._STATUS_CONV, the class attribute
    PathGroup_CONV, \* PathGroup._STATUS_CONV, the class attribute
    socks,          \* every socket object created so far
    pc,             \* where each call of mpaths_get (or _ipc_exec) stands
    s,              \* the socket of each call (index in socks, 0: none)
    buff,           \* _ipc_exec's local buff after the first recv
    output_len,     \* _ipc_exec's local output_len
    output,         \* the bytes s.recv(output_len) returned
    json_str,       \* mpaths_get's local json_str
    all_data,       \* mpaths_get's local all_data: <<>> or <<the document>>
    yielded,        \* the MPath objects the generator has produced
    exc             \* the exception that ended the call ("" if none)

vars == <<platform, module, Path_CONV, PathGroup_CONV, socks, pc, s, buff,
          output_len, output, json_str, all_data, yielded, exc>>

\* the locals of a call
locals == <<buff, output_len, output, json_str, all_data>>

(***************************************************************************)
(* Bounds of the model.                                                    *)
(***************************************************************************)
NumQueries == 2     \* calls of mpaths_get, successive or overlapping
MaxCmdLen == 2      \* length of the other command texts given to _ipc_exec

Queries == 1..NumQueries

(***************************************************************************)
(* The platform.  interp "py3" is an interpreter with struct's "n" format  *)
(* and dict views (Python >= 3.3); "py2" is one without "n", where items() *)
(* returns a list and str has decode("hex").  ssize is                     *)
(* ctypes.sizeof(c_ssize_t) and byteorder is sys.byteorder.                *)
(***************************************************************************)
Platforms ==
    [interp : {"py2", "py3"}, byteorder : {"little", "big"}, ssize : {4, 8}]

_API_VERSION_MAJOR == 0

_IPC_LEN_SIZE == platform.ssize

(***************************************************************************)
(* Byte-string helpers.                                                    *)
(***************************************************************************)
RECURSIVE Reverse(_)
Reverse(b) == IF b = <<>> THEN <<>> ELSE Append(Reverse(Tail(b)), Head(b))

\* the n low bytes of v, least significant first
RECURSIVE LittleEndian(_, _)
LittleEndian(v, n) ==
    IF n = 0 THEN <<>> ELSE <<(v % 256)>> \o LittleEndian(v \div 256, n - 1)

\* the number whose big-endian digits are b: int(b.encode("hex"), 16)
RECURSIVE FromHex(_)
FromHex(b) ==
    IF b = <<>> THEN 0 ELSE (FromHex(SubSeq(b, 1, Len(b) - 1)) * 256) + b[Len(b)]

\* struct.pack("n", v): the native ssize_t representation of v
StructPackN(v) ==
    IF platform.byteorder = "little"
    THEN LittleEndian(v, platform.ssize)
    ELSE Reverse(LittleEndian(v, platform.ssize))

\* struct.unpack("n", b)[0] for a buffer of the native size
StructUnpackN(b) ==
    IF platform.byteorder = "little" THEN FromHex(Reverse(b)) ELSE FromHex(b)

\* the number of bytes "%x" % v needs, padded to an even number of digits
RECURSIVE HexBytes(_)
HexBytes(v) == IF v < 256 THEN 1 ELSE 1 + HexBytes(v \div 256)

Max(a, b) == IF a >= b THEN a ELSE b

_len_to_ssize_t_bytes(len_value) ==
    IF platform.interp = "py3"
    THEN StructPackN(len_value)
    ELSE \* struct.error: "n" is no format of this interpreter
         LET width == Max(HexBytes(len_value), _IPC_LEN_SIZE)
             sbig == Reverse(LittleEndian(len_value, width))
         IN  IF platform.byteorder = "little" THEN Reverse(sbig) ELSE sbig

\* [exc |-> "", value |-> n] or [exc |-> the exception raised, value |-> 0]
_bytes_to_len(len_bytes) ==
    IF platform.interp = "py3" /\ Len(len_bytes) = platform.ssize
    THEN [exc |-> "", value |-> StructUnpackN(len_bytes)]
    ELSE \* struct.error: a wrong size, or "n" is no format
         IF platform.interp = "py3"
         THEN \* bytes has no encode()
              [exc |-> "AttributeError", value |-> 0]
         ELSE LET rev == IF platform.byteorder = "little"
                         THEN Reverse(len_bytes) ELSE len_bytes
              IN  [exc |-> "", value |-> FromHex(rev)]

(***************************************************************************)
(* UTF-8.                                                                  *)
(***************************************************************************)
Utf8Char(c) ==
    IF c < 128 THEN <<c>>
    ELSE IF c < 2048 THEN <<192 + (c \div 64), 128 + (c % 64)>>
    ELSE <<224 + (c \div 4096), 128 + ((c \div 64) % 64), 128 + (c % 64)>>

\* bytearray(text, 'utf-8'), for code points below 65536
RECURSIVE Utf8Encode(_)
Utf8Encode(text) ==
    IF text = <<>> THEN <<>> ELSE Utf8Char(Head(text)) \o Utf8Encode(Tail(text))

IsCont(b, i) == i <= Len(b) /\ b[i] >= 128 /\ b[i] <= 191

\* b.decode("utf-8"): [ok |-> TRUE, text |-> ...] or ok |-> FALSE for a
\* UnicodeDecodeError (sequences of up to three bytes)
RECURSIVE Utf8Decode(_)
Utf8Decode(b) ==
    IF b = <<>> THEN [ok |-> TRUE, text |-> <<>>]
    ELSE LET b1 == b[1]
             n == IF b1 < 128 THEN 1
                  ELSE IF b1 >= 194 /\ b1 <= 223 /\ IsCont(b, 2) THEN 2
                  ELSE IF b1 >= 224 /\ b1 <= 239 /\ IsCont(b, 2) /\ IsCont(b, 3)
                          /\ (b1 = 224 => b[2] >= 160) /\ (b1 = 237 => b[2] <= 159)
                       THEN 3
                  ELSE 0
             c == IF n = 1 THEN b1
                  ELSE IF n = 2 THEN ((b1 - 192) * 64) + (b[2] - 128)
                  ELSE IF n = 3
                       THEN ((b1 - 224) * 4096) + ((b[2] - 128) * 64) + (b[3] - 128)
                  ELSE 0
         IN  IF n = 0 THEN [ok |-> FALSE, text |-> <<>>]
             ELSE LET rest == Utf8Decode(SubSeq(b, n + 1, Len(b)))
                  IN  [ok |-> rest.ok,
                       text |-> IF rest.ok THEN <<c>> \o rest.text ELSE <<>>]

\* a strip that was left out
Strip_omitted(text) == text

\* text.strip('\x00'): NULs removed at both ends
RECURSIVE LStrip(_)
LStrip(text) ==
    IF text # <<>> /\ Head(text) = 0 THEN LStrip(Tail(text)) ELSE text

Strip(text) == Reverse(LStrip(Reverse(LStrip(text))))

(***************************************************************************)
(* The status tables.  A dict is [ints |-> the entries with an integer     *)
(* key, strs |-> the entries with a string key]; a class literal is the    *)
(* sequence of its (code, string) items in the order written.              *)
(***************************************************************************)
Path_STATUS_UNKNOWN == 0
Path_STATUS_DOWN == 2
Path_STATUS_UP == 3
Path_STATUS_SHAKY == 4
Path_STATUS_GHOST == 5
Path_STATUS_PENDING == 6
Path_STATUS_TIMEOUT == 7
Path_STATUS_DELAYED == 9

Path_STATUS_CONV_literal ==
    << <<Path_STATUS_UNKNOWN, "undef">>,
       <<Path_STATUS_UP, "ready">>,
       <<Path_STATUS_DOWN, "faulty">>,
       <<Path_STATUS_SHAKY, "shaky">>,
       <<Path_STATUS_GHOST, "ghost">>,
       <<Path_STATUS_PENDING, "i/o pending">>,
       <<Path_STATUS_TIMEOUT, "i/o timeout">>,
       <<Path_STATUS_DELAYED, "delayed">> >>

PathGroup_STATUS_UNKNOWN == 0
PathGroup_STATUS_ENABLED == 1
PathGroup_STATUS_DISABLED == 2
PathGroup_STATUS_ACTIVE == 3

PathGroup_STATUS_CONV_literal ==
    << <<PathGroup_STATUS_UNKNOWN, "undef">>,
       <<PathGroup_STATUS_ENABLED, "enabled">>,
       <<PathGroup_STATUS_DISABLED, "disabled">>,
       <<PathGroup_STATUS_ACTIVE, "active">> >>

NoDict == [ints |-> <<>>, strs |-> <<>>]

Last(S) == CHOOSE i \in S : \A j \in S : j <= i

\* the dict a literal evaluates to
DictOf(items) ==
    [ints |-> [k \in {items[i][1] : i \in DOMAIN items} |->
                  items[Last({i \in DOMAIN items : items[i][1] = k})][2]],
     strs |-> <<>>]

\* d[v] = k for every item (k, v) of the first n items, in order
ReverseOf(items, n) ==
    [v \in {items[i][2] : i \in 1..n} |->
        items[Last({i \in 1..n : items[i][2] = v})][1]]

\* _add_reverse_mapping(d) on the dict of a literal: the dict it leaves and
\* whether it raised.  Under a list-returning items() the loop walks a copy;
\* under a dict view the insertion of the first new key changes the size of
\* the dict under iteration and the next step of the loop raises
\* RuntimeError.
_add_reverse_mapping(items) ==
    IF platform.interp = "py2"
    THEN [d |-> [DictOf(items) EXCEPT !.strs = ReverseOf(items, Len(items))],
          raised |-> FALSE]
    ELSE [d |-> [DictOf(items) EXCEPT !.strs = ReverseOf(items, 1)],
          raised |-> TRUE]

\* d.get(key, default) for a string key
Get(d, key, default) ==
    IF key \in DOMAIN d.strs THEN d.strs[key] ELSE default

\* a lookup in the table of the other class
Path_status_str_to_enum_other(status_str) ==
    Get(PathGroup_CONV, status_str, Path_STATUS_UNKNOWN)

Path_status_str_to_enum(status_str) ==
    Get(Path_CONV, status_str, Path_STATUS_UNKNOWN)

PathGroup_status_str_to_enum(status_str) ==
    Get(PathGroup_CONV, status_str, PathGroup_STATUS_UNKNOWN)

\* the status_string properties
Path_status_string(path) == Path_CONV.ints[path._status]

PathGroup_status_string(pg) == PathGroup_CONV.ints[pg._status]

(***************************************************************************)
(* The object graph.                                                       *)
(***************************************************************************)
Path(path) ==
    [_dev |-> path.dev, _status |-> Path_status_str_to_enum(path.chk_st)]

PathGroup(pg) ==
    [_paths |-> [i \in DOMAIN pg.paths |-> Path(pg.paths[i])],
     _group |-> pg.group,
     _pri |-> pg.pri,
     _selector |-> pg.selector,
     _status |-> PathGroup_status_str_to_enum(pg.dm_st)]

MPath(mpath) ==
    [_path_groups |->
        [i \in DOMAIN mpath.path_groups |-> PathGroup(mpath.path_groups[i])],
     _uuid |-> mpath.uuid,
     _name |-> mpath.name,
     _sysfs |-> mpath.sysfs]

\* groups walked last to first
RECURSIVE ExtendAll_reversed(_)
ExtendAll_reversed(pgs) ==
    IF pgs = <<>> THEN <<>> ELSE ExtendAll_reversed(Tail(pgs)) \o Head(pgs)._paths

\* rc.extend(pg.paths) for every pg of a list of groups
RECURSIVE ExtendAll(_)
ExtendAll(pgs) ==
    IF pgs = <<>> THEN <<>> ELSE Head(pgs)._paths \o ExtendAll(Tail(pgs))

\* the paths property of MPath
MPath_paths(mp) == ExtendAll(mp._path_groups)

(***************************************************************************)
(* What the daemon may answer.  json.loads is a library call: the model    *)
(* gives each document the daemon may send a short text and reads a text   *)
(* back as the document it stands for, and as a ValueError otherwise (a    *)
(* proper prefix of a JSON object is no JSON value).                       *)
(***************************************************************************)
MapA ==
    [uuid |-> "wwid1", name |-> "mpatha", sysfs |-> "dm-0",
     path_groups |->
        << [group |-> 1, pri |-> 10, selector |-> "service-time 0",
            dm_st |-> "active",
            paths |-> << [dev |-> "sda", chk_st |-> "ready"],
                         [dev |-> "sdb", chk_st |-> "ghost"] >>] >>]

MapB ==
    [uuid |-> "wwid2", name |-> "mpathb", sysfs |-> "dm-1",
     path_groups |->
        << [group |-> 1, pri |-> 50, selector |-> "round-robin 0",
            dm_st |-> "enabled",
            paths |-> << [dev |-> "sdc", chk_st |-> "faulty"] >>],
           [group |-> 2, pri |-> 1, selector |-> "queue-length 0",
            dm_st |-> "ready",
            paths |-> << [dev |-> "sdd", chk_st |-> "removed"],
                         [dev |-> "sde", chk_st |-> "active"] >>] >>]

Docs ==
    << [major_version |-> 0, maps |-> <<>>],
       [major_version |-> 0, maps |-> <<MapA, MapB>>],
       [major_version |-> 1, maps |-> <<MapA>>] >>

\* the text of each document: "{0}", "{é}" and "{1}" stand for the
\* serialisations; the second holds a character of two UTF-8 bytes
JsonText == << <<123, 48, 125>>, <<123, 233, 125>>, <<123, 49, 125>> >>

json_loads(text) ==
    IF \E i \in DOMAIN Docs : JsonText[i] = text
    THEN [exc |-> "", value |-> Docs[CHOOSE i \in DOMAIN Docs : JsonText[i] = text]]
    ELSE [exc |-> "ValueError", value |-> Docs[1]]

\* the payloads of the daemon: nothing, NUL padding only, or a document
\* followed by its terminating NUL
Payloads ==
    {<<>>, <<0, 0>>} \cup {Utf8Encode(JsonText[i]) \o <<0>> : i \in DOMAIN Docs}

\* the bytes a connection delivers before the peer closes it: nothing, a
\* whole frame, or the length prefix of a frame whose payload never comes
DaemonStreams ==
    {<<>>} \cup {StructPackN(Len(pl)) \o pl : pl \in Payloads}
           \cup {StructPackN(Len(pl)) : pl \in Payloads \ {<<>>}}

(***************************************************************************)
(* The commands.                                                           *)
(***************************************************************************)
\* "show maps json"
ShowMapsJson == <<115, 104, 111, 119, 32, 109, 97, 112, 115, 32, 106, 115, 111, 110>>

\* "a", U+00E9 and U+20AC: one, two and three UTF-8 bytes
CmdAlphabet == {97, 233, 8364}

Commands ==
    {ShowMapsJson} \cup UNION {[1..n -> CmdAlphabet] : n \in 0..MaxCmdLen}

\* a prefix that does not count the NUL
IpcRequest_no_nul(cmd) ==
    _len_to_ssize_t_bytes(Len(cmd)) \o Utf8Encode(cmd) \o <<0>>

\* the buffer _ipc_exec builds for cmd
IpcRequest(cmd) ==
    _len_to_ssize_t_bytes(Len(cmd) + 1) \o Utf8Encode(cmd) \o <<0>>

(***************************************************************************)
(* Sockets and calls.                                                      *)
(***************************************************************************)
NewSocket(q) ==
    [owner |-> q, state |-> "open", events |-> <<>>, sent |-> <<>>, wire |-> <<>>]

Min(a, b) == IF a <= b THEN a ELSE b

Reset(f, q, v) == [f EXCEPT ![q] = v]

\* the call q ends with the exception e: nothing after the raise runs, the
\* frame of _ipc_exec is gone, and what the peer would still deliver is read
\* by nobody
Raise(q, e, socks1) ==
    /\ pc' = [pc EXCEPT ![q] = "raised"]
    /\ exc' = [exc EXCEPT ![q] = e]
    /\ socks' = IF s[q] = 0 THEN socks1 ELSE [socks1 EXCEPT ![s[q]].wire = <<>>]
    /\ buff' = Reset(buff, q, <<>>)
    /\ output_len' = Reset(output_len, q, 0)
    /\ output' = Reset(output, q, <<>>)
    /\ json_str' = Reset(json_str, q, <<>>)

Event(q, e) == [socks EXCEPT ![s[q]].events = Append(@, e)]

Init ==
    /\ platform \in Platforms
    /\ module = "unloaded"
    /\ Path_CONV = NoDict
    /\ PathGroup_CONV = NoDict
    /\ socks = <<>>
    /\ pc = [q \in Queries |-> "idle"]
    /\ s = [q \in Queries |-> 0]
    /\ buff = [q \in Queries |-> <<>>]
    /\ output_len = [q \in Queries |-> 0]
    /\ output = [q \in Queries |-> <<>>]
    /\ json_str = [q \in Queries |-> <<>>]
    /\ all_data = [q \in Queries |-> <<>>]
    /\ yielded = [q \in Queries |-> <<>>]
    /\ exc = [q \in Queries |-> ""]

\* import dmmp: the class bodies of Path and PathGroup run
Import ==
    /\ module = "unloaded"
    /\ LET p == _add_reverse_mapping(Path_STATUS_CONV_literal)
           g == _add_reverse_mapping(PathGroup_STATUS_CONV_literal)
       IN  /\ Path_CONV' = p.d
           /\ IF p.raised
              THEN /\ module' = "import_error"
                   /\ UNCHANGED PathGroup_CONV
              ELSE /\ PathGroup_CONV' = g.d
                   /\ module' = IF g.raised THEN "import_error" ELSE "loaded"
    /\ UNCHANGED <<platform, socks, pc, s, locals, yielded, exc>>

\* a socket kept at module level and used by every call
Call_shared(q) ==
    /\ module = "loaded"
    /\ pc[q] = "idle"
    /\ socks' = IF socks = <<>> THEN <<NewSocket(q)>> ELSE socks
    /\ s' = [s EXCEPT ![q] = 1]
    /\ pc' = [pc EXCEPT ![q] = "connect"]
    /\ UNCHANGED <<platform, module, Path_CONV, PathGroup_CONV, locals,
                   yielded, exc>>

\* the first next() of the generator: socket.socket(), settimeout(60)
Call(q) ==
    /\ module = "loaded"
    /\ pc[q] = "idle"
    /\ socks' = Append(socks, NewSocket(q))
    /\ s' = [s EXCEPT ![q] = Len(socks) + 1]
    /\ pc' = [pc EXCEPT ![q] = "connect"]
    /\ UNCHANGED <<platform, module, Path_CONV, PathGroup_CONV, locals,
                   yielded, exc>>

\* s.connect(_IPC_ADDR): connected, or refused or timed out
Connect(q) ==
    /\ pc[q] = "connect"
    /\ \/ /\ socks' = Event(q, "connect")
          /\ pc' = [pc EXCEPT ![q] = "send"]
          /\ UNCHANGED <<buff, output_len, output, json_str, exc>>
       \/ Raise(q, "socket.error", socks)
    /\ UNCHANGED <<platform, module, Path_CONV, PathGroup_CONV, s, all_data,
                   yielded>>

\* _ipc_exec: s.sendall(buff); on success the daemon settles its answer
Send(q, cmd) ==
    /\ pc[q] = "send"
    /\ \/ \E stream \in DaemonStreams :
             /\ socks' = [socks EXCEPT
                    ![s[q]].events = Append(@, "send"),
                    ![s[q]].sent = Append(@, [cmd |-> cmd, buff |-> IpcRequest(cmd)]),
                    ![s[q]].wire = stream]
             /\ pc' = [pc EXCEPT ![q] = "recv_len"]
             /\ UNCHANGED <<buff, output_len, output, json_str, exc>>
       \/ Raise(q, "socket.error", socks)
    /\ UNCHANGED <<platform, module, Path_CONV, PathGroup_CONV, s, all_data,
                   yielded>>

\* the results of s.recv(n) on the socket of q: nothing when n is 0 or the
\* peer has closed, else any number of the bytes to come, from 1 to n
RecvSizes(q, n) ==
    IF n = 0 \/ socks[s[q]].wire = <<>> THEN {0}
    ELSE 1..Min(n, Len(socks[s[q]].wire))

Recv(q, k) ==
    [socks EXCEPT ![s[q]].events = Append(@, "recv"),
                  ![s[q]].wire = SubSeq(@, k + 1, Len(@))]

\* _ipc_exec: buff = s.recv(_IPC_LEN_SIZE), the empty answer, _bytes_to_len
RecvLen(q, sizes) ==
    /\ pc[q] = "recv_len"
    /\ \/ \E k \in sizes :
             LET data == SubSeq(socks[s[q]].wire, 1, k)
                 r == _bytes_to_len(data)
             IN  IF data = <<>>
                 THEN \* return ""
                      /\ socks' = Recv(q, k)
                      /\ buff' = [buff EXCEPT ![q] = data]
                      /\ pc' = [pc EXCEPT ![q] = "close"]
                      /\ UNCHANGED <<output_len, output, json_str, exc>>
                 ELSE IF r.exc # ""
                 THEN Raise(q, r.exc, Recv(q, k))
                 ELSE /\ socks' = Recv(q, k)
                      /\ buff' = [buff EXCEPT ![q] = data]
                      /\ output_len' = [output_len EXCEPT ![q] = r.value]
                      /\ pc' = [pc EXCEPT ![q] = "recv_payload"]
                      /\ UNCHANGED <<output, json_str, exc>>
       \/ Raise(q, "socket.timeout", socks)
    /\ UNCHANGED <<platform, module, Path_CONV, PathGroup_CONV, s, all_data,
                   yielded>>

\* _ipc_exec: s.recv(output_len).decode("utf-8"), strip, return
RecvPayload(q, sizes) ==
    /\ pc[q] = "recv_payload"
    /\ \/ \E k \in sizes :
             LET data == SubSeq(socks[s[q]].wire, 1, k)
                 r == Utf8Decode(data)
             IN  IF r.ok
                 THEN /\ socks' = Recv(q, k)
                      /\ output' = [output EXCEPT ![q] = data]
                      /\ json_str' = [json_str EXCEPT ![q] = Strip(r.text)]
                      /\ pc' = [pc EXCEPT ![q] = "close"]
                      /\ UNCHANGED <<buff, output_len, exc>>
                 ELSE Raise(q, "UnicodeDecodeError", Recv(q, k))
       \/ Raise(q, "socket.timeout", socks)
    /\ UNCHANGED <<platform, module, Path_CONV, PathGroup_CONV, s, all_data,
                   yielded>>

\* mpaths_get: s.close(), once _ipc_exec has returned and its frame is gone
Close(q) ==
    /\ pc[q] = "close"
    /\ socks' = [socks EXCEPT ![s[q]].events = Append(@, "close"),
                              ![s[q]].state = "closed",
                              ![s[q]].wire = <<>>]
    /\ pc' = [pc EXCEPT ![q] = "parse"]
    /\ buff' = Reset(buff, q, <<>>)
    /\ output_len' = Reset(output_len, q, 0)
    /\ output' = Reset(output, q, <<>>)
    /\ UNCHANGED <<platform, module, Path_CONV, PathGroup_CONV, s, json_str,
                   all_data, yielded, exc>>

\* mpaths_get: the empty answer, json.loads, the version check
Parse(q) ==
    /\ pc[q] = "parse"
    /\ LET loaded == json_loads(json_str[q])
       IN  IF Len(json_str[q]) = 0
           THEN \* return
                /\ pc' = [pc EXCEPT ![q] = "done"]
                /\ UNCHANGED <<socks, locals, exc>>
           ELSE IF loaded.exc # ""
           THEN /\ Raise(q, loaded.exc, socks)
                /\ UNCHANGED all_data
           ELSE /\ all_data' = [all_data EXCEPT ![q] = <<loaded.value>>]
                /\ IF loaded.value.major_version # _API_VERSION_MAJOR
                   THEN \* raise exception("incorrect version"): the name
                        \* exception is not defined
                        Raise(q, "NameError", socks)
                   ELSE /\ json_str' = Reset(json_str, q, <<>>)
                        /\ pc' = [pc EXCEPT ![q] = "loop"]
                        /\ UNCHANGED <<socks, buff, output_len, output, exc>>
    /\ UNCHANGED <<platform, module, Path_CONV, PathGroup_CONV, s, yielded>>

\* mpaths_get: one turn of the for loop over all_data["maps"], or its end
Yield(q) ==
    /\ pc[q] = "loop"
    /\ LET todo == all_data[q][1].maps
           i == Len(yielded[q]) + 1
       IN  IF i > Len(todo)
           THEN /\ pc' = [pc EXCEPT ![q] = "done"]
                /\ UNCHANGED yielded
           ELSE /\ yielded' = [yielded EXCEPT ![q] = Append(@, MPath(todo[i]))]
                /\ UNCHANGED pc
    /\ UNCHANGED <<platform, module, Path_CONV, PathGroup_CONV, socks, s,
                   locals, exc>>

\* a generator that is not running: not started, ended, or stopped at a yield
Suspended(q) ==
    \/ pc[q] \in {"idle", "done", "raised"}
    \/ pc[q] = "loop" /\ yielded[q] # <<>>

\* the calls one thread can move: a call runs to its next yield before
\* another call moves
Runnable(q) == \A r \in Queries \ {q} : Suspended(r)

Next ==
    \/ Import
    \/ \E q \in Queries :
          \/ Runnable(q) /\ Call(q)
          \/ Runnable(q) /\ Connect(q)
          \/ Runnable(q) /\ Send(q, ShowMapsJson)
          \/ Runnable(q) /\ RecvLen(q, RecvSizes(q, _IPC_LEN_SIZE))
          \/ Runnable(q) /\ RecvPayload(q, RecvSizes(q, output_len[q]))
          \/ Runnable(q) /\ Close(q)
          \/ Runnable(q) /\ Parse(q)
          \/ Runnable(q) /\ Yield(q)

Spec == Init /\ [][Next]_vars

\* the size of a recv that takes all it asked for, or all there is
WholeSize(q, n) == {Last(RecvSizes(q, n))}

\* one thread per call; each recv takes all it asked for (the ways an answer
\* is cut into pieces are those of Spec)
NextThreads ==
    \/ Import
    \/ \E q \in Queries :
          \/ Call(q)
          \/ Connect(q)
          \/ Send(q, ShowMapsJson)
          \/ RecvLen(q, WholeSize(q, _IPC_LEN_SIZE))
          \/ RecvPayload(q, WholeSize(q, output_len[q]))
          \/ Close(q)
          \/ Parse(q)
          \/ Yield(q)

\* the threads run on one machine: with whole reads the width and the byte
\* order change the bytes on the wire and nothing else
InitThreads ==
    /\ Init
    /\ platform.ssize = 8
    /\ platform.byteorder = "little"

SpecThreads == InitThreads /\ [][NextThreads]_vars

\* _ipc_exec alone: a caller hands it a connected socket and a command
InitIpc ==
    /\ platform \in Platforms
    /\ module = "unloaded"
    /\ Path_CONV = NoDict
    /\ PathGroup_CONV = NoDict
    /\ socks = <<[NewSocket(1) EXCEPT !.events = <<"connect">>]>>
    /\ pc = [q \in Queries |-> IF q = 1 THEN "send" ELSE "idle"]
    /\ s = [q \in Queries |-> IF q = 1 THEN 1 ELSE 0]
    /\ buff = [q \in Queries |-> <<>>]
    /\ output_len = [q \in Queries |-> 0]
    /\ output = [q \in Queries |-> <<>>]
    /\ json_str = [q \in Queries |-> <<>>]
    /\ all_data = [q \in Queries |-> <<>>]
    /\ yielded = [q \in Queries |-> <<>>]
    /\ exc = [q \in Queries |-> ""]

NextIpc ==
    \/ \E cmd \in Commands : Send(1, cmd)
    \/ RecvLen(1, RecvSizes(1, _IPC_LEN_SIZE))
    \/ RecvPayload(1, RecvSizes(1, output_len[1]))

SpecIpc == InitIpc /\ [][NextIpc]_vars

(***************************************************************************)
(* The claims.                                                             *)
(***************************************************************************)
Ended(q) == pc[q] \in {"done", "raised"}

\* C1: once the socket of a call exists, every way the call ends, with a
\* result or with an exception, leaves that socket closed.
C1_ClosedOnEveryExit ==
    \A q \in Queries :
        Ended(q) /\ s[q] # 0 => socks[s[q]].state = "closed"

\* C2: a response whose major_version is not the supported one ends the call
\* with a version-mismatch error, and no MPath is produced.
C2_VersionMismatchError ==
    \A q \in Queries :
        all_data[q] # <<>> /\ all_data[q][1].major_version # _API_VERSION_MAJOR
        => /\ pc[q] = "raised"
           /\ exc[q] = "ProtocolVersionError"
           /\ yielded[q] = <<>>

AllNul(b) == \A i \in DOMAIN b : b[i] = 0

\* _ipc_exec has returned "" to a call that got no byte of a length prefix,
\* or a payload that is empty or all NUL
EmptyAnswer(q) ==
    pc[q] = "close" /\ (buff[q] = <<>> \/ AllNul(output[q]))
    => json_str[q] = <<>>

\* a call that goes on with an empty response text ends at once, without an
\* exception and without an MPath
EmptyResult(q) ==
    pc[q] = "parse" /\ json_str[q] = <<>> /\ pc'[q] # pc[q]
    => pc'[q] = "done" /\ exc'[q] = "" /\ yielded'[q] = <<>>

\* C3: an empty response (the peer closed before any byte of the prefix, or
\* the payload is empty or NUL padding only) gives an empty sequence and no
\* error.
C3_EmptyResponse ==
    [][\A q \in Queries : EmptyAnswer(q)' /\ EmptyResult(q)]_vars

\* C3 witness: a call ended without error and without MPath after a payload
\* of NUL bytes only.
C3_Witness ==
    \E q \in Queries :
        /\ pc[q] = "close"
        /\ output[q] # <<>>
        /\ AllNul(output[q])
        /\ json_str[q] = <<>>

IsAscii(text) == \A i \in DOMAIN text : text[i] < 128

\* what follows the length prefix in a request
AfterPrefix(b) == SubSeq(b, _IPC_LEN_SIZE + 1, Len(b))

\* the value a native reader finds in the length prefix of a request
PrefixValue(b) == StructUnpackN(SubSeq(b, 1, _IPC_LEN_SIZE))

\* every request sent so far, with its command
Requests ==
    UNION {{socks[i].sent[j] : j \in DOMAIN socks[i].sent} : i \in DOMAIN socks}

Strings(items) == {items[i][2] : i \in DOMAIN items}

Codes(items) == {items[i][1] : i \in DOMAIN items}

\* the status strings a record may carry: those of both tables, and more
StatusStrings ==
    Strings(Path_STATUS_CONV_literal) \cup Strings(PathGroup_STATUS_CONV_literal)
        \cup {"removed", "", "READY", "Undef"}

\* the raw record the i-th MPath of call q was built from
Raw(q, i) == all_data[q][1].maps[i]

\* C5: a status string that is none of the table's canonical strings maps to
\* UNKNOWN (0), in both classes, and a Path or PathGroup built from a record
\* with such a string has status UNKNOWN.
C5_UnknownStatus ==
    module = "loaded" =>
        /\ \A str \in StatusStrings \ Strings(Path_STATUS_CONV_literal) :
              Path_status_str_to_enum(str) = 0
        /\ \A str \in StatusStrings \ Strings(PathGroup_STATUS_CONV_literal) :
              PathGroup_status_str_to_enum(str) = 0
        /\ \A q \in Queries : \A i \in DOMAIN yielded[q] :
              \A g \in DOMAIN yielded[q][i]._path_groups :
                 LET pg == yielded[q][i]._path_groups[g]
                     rg == Raw(q, i).path_groups[g]
                 IN  /\ rg.dm_st \notin Strings(PathGroup_STATUS_CONV_literal)
                        => pg._status = 0 /\ PathGroup_status_string(pg) = "undef"
                     /\ \A p \in DOMAIN pg._paths :
                           rg.paths[p].chk_st \notin Strings(Path_STATUS_CONV_literal)
                           => /\ pg._paths[p]._status = 0
                              /\ Path_status_string(pg._paths[p]) = "undef"

\* C5 witness: an MPath was built from a record with a path status and a
\* group status that are in no table ("removed"), or in the other table.
C5_Witness ==
    \E q \in Queries : \E i \in DOMAIN yielded[q] :
        \E g \in DOMAIN yielded[q][i]._path_groups :
            /\ Raw(q, i).path_groups[g].dm_st = "ready"
            /\ yielded[q][i]._path_groups[g]._status = 0
            /\ \E p \in DOMAIN yielded[q][i]._path_groups[g]._paths :
                  /\ Raw(q, i).path_groups[g].paths[p].chk_st = "removed"
                  /\ yielded[q][i]._path_groups[g]._paths[p]._status = 0

\* code -> string -> code is the identity on the codes of a table
RoundTrip(d, items) ==
    \A c \in Codes(items) :
        /\ c \in DOMAIN d.ints
        /\ d.ints[c] \in DOMAIN d.strs
        /\ d.strs[d.ints[c]] = c
        /\ \A c2 \in Codes(items) \ {c} : c2 \in DOMAIN d.ints => d.ints[c2] # d.ints[c]

\* C6: once the module has run _add_reverse_mapping, each table maps every
\* code to a distinct string and that string back to the code.
C6_RoundTrip ==
    module # "unloaded" =>
        /\ RoundTrip(Path_CONV, Path_STATUS_CONV_literal)
        /\ RoundTrip(PathGroup_CONV, PathGroup_STATUS_CONV_literal)

\* the fields of a PathGroup are those of its record, its paths in order
BuiltGroup(pg, rg) ==
    /\ pg._group = rg.group
    /\ pg._pri = rg.pri
    /\ pg._selector = rg.selector
    /\ Len(pg._paths) = Len(rg.paths)
    /\ \A p \in DOMAIN rg.paths : pg._paths[p]._dev = rg.paths[p].dev

\* the fields of an MPath are those of its record, its groups in order
BuiltMPath(mp, rec) ==
    /\ mp._uuid = rec.uuid
    /\ mp._name = rec.name
    /\ mp._sysfs = rec.sysfs
    /\ Len(mp._path_groups) = Len(rec.path_groups)
    /\ \A g \in DOMAIN rec.path_groups :
          BuiltGroup(mp._path_groups[g], rec.path_groups[g])

\* the position in the flattened view of path p of group g
Position(mp, g, p) ==
    LET before[k \in 0..Len(mp._path_groups)] ==
            IF k = 0 THEN 0 ELSE before[k - 1] + Len(mp._path_groups[k]._paths)
    IN  before[g - 1] + p

\* the flattened view holds each path of each group, groups in order and the
\* paths of a group in order, and nothing else
FlatView(mp) ==
    LET view == MPath_paths(mp)
        total == Position(mp, Len(mp._path_groups) + 1, 0)
    IN  /\ Len(view) = total
        /\ \A g \in DOMAIN mp._path_groups :
              \A p \in DOMAIN mp._path_groups[g]._paths :
                 view[Position(mp, g, p)] = mp._path_groups[g]._paths[p]

\* C7: a version-0 response gives one MPath per element of maps, in order,
\* each with the groups and paths of its record in order and fields copied,
\* and MPath.paths is the concatenation of the groups' paths in group order.
C7_ObjectGraph ==
    \A q \in Queries :
        /\ Len(yielded[q]) > 0 =>
              all_data[q] # <<>> /\ all_data[q][1].major_version = 0
        /\ all_data[q] # <<>> /\ all_data[q][1].major_version = 0 =>
              /\ Len(yielded[q]) <= Len(all_data[q][1].maps)
              /\ pc[q] = "done" => Len(yielded[q]) = Len(all_data[q][1].maps)
              /\ \A i \in DOMAIN yielded[q] :
                    /\ BuiltMPath(yielded[q][i], Raw(q, i))
                    /\ FlatView(yielded[q][i])

\* C7 witness: a call has ended after two MPaths, the second with two groups
\* and three paths.
C7_Witness ==
    \E q \in Queries :
        /\ pc[q] = "done"
        /\ Len(yielded[q]) = 2
        /\ Len(yielded[q][2]._path_groups) = 2
        /\ Len(MPath_paths(yielded[q][2])) = 3

\* C8: _ipc_exec, after a whole length prefix, returns only with as many
\* payload bytes as the prefix declares.
C8_WholePayload ==
    \A q \in Queries :
        pc[q] = "close" /\ Len(buff[q]) = _IPC_LEN_SIZE
        => Len(output[q]) = output_len[q]

\* C9: _ipc_exec goes on to read a payload only after a length prefix of the
\* native width; a shorter one is an error.
C9_ShortPrefixIsError ==
    \A q \in Queries :
        pc[q] = "recv_payload" => Len(buff[q]) = _IPC_LEN_SIZE

IsPrefix(a, b) == Len(a) <= Len(b) /\ a = SubSeq(b, 1, Len(a))

\* the events of a socket, in the order of a query
QueryOrders ==
    { <<"connect", "send", "recv", "recv", "close">>,
      <<"connect", "send", "recv", "close">> }

\* C10: each call has its own socket, on which connect, send of one command,
\* receive and close happen in that order; no MPath is produced before the
\* close; no two calls use the same socket.
C10_OneExchangePerSocket ==
    /\ \A i \in DOMAIN socks :
          /\ \E o \in QueryOrders : IsPrefix(socks[i].events, o)
          /\ Len(socks[i].sent) <= 1
          /\ Len(socks[i].sent) = 1 <=> Len(socks[i].events) >= 2
          /\ socks[i].state = "closed" <=>
                (socks[i].events # <<>> /\ socks[i].events[Len(socks[i].events)] = "close")
          /\ s[socks[i].owner] = i
    /\ \A q \in Queries :
          /\ pc[q] # "idle" <=> s[q] # 0
          /\ s[q] # 0 => s[q] \in DOMAIN socks /\ socks[s[q]].owner = q
          /\ pc[q] \in {"loop", "done"} \/ yielded[q] # <<>> =>
                socks[s[q]].state = "closed"
    /\ \A q, r \in Queries : q # r /\ s[q] # 0 => s[q] # s[r]

\* C10 witness: two calls run at once, one reading its answer while the other
\* has closed its socket and produced an MPath.
C10_Witness ==
    \E q, r \in Queries :
        /\ q # r
        /\ pc[q] = "recv_payload"
        /\ socks[s[q]].state = "open"
        /\ pc[r] = "loop"
        /\ yielded[r] # <<>>
        /\ socks[s[r]].state = "closed"

====
